---- MODULE Spec2Model ----
(***************************************************************************)
(* Model of src/utils/db.js: the IndexedDB data-access layer of the        *)
(* Webpage Clipper extension (initDB, addClippedPage, getAllClippedPages,   *)
(* deleteClippedPage, clearAllClippedPages) together with the parts of the *)
(* storage engine these functions drive: open requests, the versionchange  *)
(* (upgrade) transaction with its cursor scan, the queue of store          *)
(* transactions, the key generator, and commit / abort.                    *)
(*                                                                         *)
(* One action is one event-loop task: a call made by the view layer (up to *)
(* its first suspension), or one engine callback with the promise          *)
(* continuation it triggers.                                               *)
(***************************************************************************)
EXTENDS Integers, Sequences, FiniteSets, TLC

(***************************************************************************)
(* Program constants.                                                      *)
(***************************************************************************)
DB_VERSION == 2

WordsPerMinute == 200

(***************************************************************************)
(* Bounds of the model.                                                    *)
(***************************************************************************)
\* calls the view layer makes in one page lifetime
MaxCalls == 3

\* records already on disk when the page loads
MaxOld == 2

(***************************************************************************)
(* Optional values.  A JavaScript property that is absent (undefined) is   *)
(* None, a present one is Some(v).  Text is a sequence of characters, so   *)
(* the empty string is <<>>.                                               *)
(***************************************************************************)
None == <<>>

Some(v) == <<v>>

\* !x for a numeric property: undefined and 0 are falsy
FalsyNum(x) == x = None \/ x[1] = 0

\* !x for a text property: undefined and "" are falsy
FalsyText(x) == x = None \/ x[1] = <<>>

\* x || d
OrElseText(x, d) == IF FalsyText(x) THEN d ELSE x[1]

(***************************************************************************)
(* Metadata derivation: text.trim().split(/\s+/).filter(Boolean).length    *)
(* and Math.ceil(length / 200).                                            *)
(***************************************************************************)
IsSpace(c) == c \in {" ", "\t", "\n"}

\* trimStart: the text from its first non-whitespace character on
TrimStart(s) ==
  IF \A i \in 1..Len(s) : IsSpace(s[i]) THEN <<>>
  ELSE SubSeq(s,
              CHOOSE i \in 1..Len(s) :
                ~IsSpace(s[i]) /\ \A j \in 1..(i - 1) : IsSpace(s[j]),
              Len(s))

\* trimEnd: the text up to its last non-whitespace character
TrimEnd(s) ==
  IF \A i \in 1..Len(s) : IsSpace(s[i]) THEN <<>>
  ELSE SubSeq(s, 1,
              CHOOSE i \in 1..Len(s) :
                ~IsSpace(s[i]) /\ \A j \in (i + 1)..Len(s) : IsSpace(s[j]))

\* String.prototype.trim
Trim(s) == TrimEnd(TrimStart(s))

\* String.prototype.split(/\s+/) on s[lo..hi]: the pieces between maximal
\* whitespace runs (an empty piece before a leading and after a trailing
\* run; the empty text splits into one empty piece).  The range is split in
\* two halves; the last piece of the left half and the first piece of the
\* right half are one piece, which is no piece at all when the cut falls
\* inside a whitespace run.
RECURSIVE SplitWs(_, _, _)
SplitWs(s, lo, hi) ==
  IF lo > hi THEN << <<>> >>
  ELSE IF lo = hi
  THEN IF IsSpace(s[lo]) THEN << <<>>, <<>> >> ELSE << <<s[lo]>> >>
  ELSE LET mid == (lo + hi) \div 2
           left == SplitWs(s, lo, mid)
           right == SplitWs(s, mid + 1, hi)
           front == SubSeq(left, 1, Len(left) - 1)
       IN IF IsSpace(s[mid]) /\ IsSpace(s[mid + 1])
          THEN front \o Tail(right)
          ELSE front \o << left[Len(left)] \o Head(right) >> \o Tail(right)

IsNonEmptyPiece(p) == p # <<>>

\* Array.prototype.filter(Boolean) on an array of strings
FilterBoolean(ps) == SelectSeq(ps, IsNonEmptyPiece)

\* const words = text.trim().split(/\s+/).filter(Boolean)
Words(text) == FilterBoolean(SplitWs(Trim(text), 1, Len(Trim(text))))

FloorDiv(n, d) == n \div d

\* Math.ceil(n / d) for n >= 0, d > 0
CeilDiv(n, d) == IF n % d = 0 THEN n \div d ELSE (n \div d) + 1

(***************************************************************************)
(* Records.  A stored record is the object kept under its key `id`; the    *)
(* store is the set of stored records (getAll returns them all).           *)
(***************************************************************************)
Rec(id, title, content, timestamp, wordCount, readingTime) ==
  [id |-> id, title |-> title, url |-> "http://x", content |-> content,
   timestamp |-> timestamp, wordCount |-> wordCount, readingTime |-> readingTime]

TextAB == <<"a", " ", "b">>

TextBlank == <<" ">>

T1 == <<"t1">>

T0 == <<"t0">>

\* new Date().toISOString() at the time of the call
Now == <<"now">>

\* Records an earlier schema version may have left in the store: without the
\* metadata fields, with both, with zeros for empty content, with one field
\* missing and no content, and with a zero reading time.
OldRecords ==
  { Rec(1, "A", Some(TextAB), Some(T0), None, None),
    Rec(2, "B", Some(TextAB), Some(T0), Some(5), Some(1)),
    Rec(3, "C", Some(<<>>), Some(T0), Some(0), Some(0)),
    Rec(4, "D", None, Some(T0), Some(2), None),
    Rec(5, "E", Some(TextAB), Some(T0), Some(2), Some(0)) }

Ids(recs) == { r.id : r \in recs }

\* The page data handed to addPage: the usual {title, url, content}; one
\* without content, with a timestamp and with metadata of its own; one with
\* an id of its own, blank content and an empty timestamp.
PageData(id, title, content, timestamp, wordCount) ==
  [id |-> id, title |-> title, url |-> "http://x", content |-> content,
   timestamp |-> timestamp, wordCount |-> wordCount, readingTime |-> wordCount]

PageInputs ==
  { PageData(None, "A", Some(TextAB), None, None),
    PageData(None, "N", None, Some(T1), Some(7)),
    PageData(Some(1), "X", Some(TextBlank), Some(<<>>), None) }

\* ids a delete button or a caller can hold: an old record's, and the first
\* one the key generator hands out
DeleteIds == {1, Cardinality(OldRecords) + 1}

(***************************************************************************)
(* State.                                                                  *)
(***************************************************************************)
VARIABLES
  db,        \* the module's connection: 0 is null, n > 0 the n-th handle opened
  conns,     \* number of connection handles the engine has handed out
  calls,     \* every call made so far, in call order, with its outcome
  openq,     \* open requests in flight (indices into calls), oldest first
  txq,       \* store transactions in flight (indices into calls), oldest first
  upg,       \* the upgrade transaction: "idle", "scan" or "scanned"
  cursor,    \* key of the record the upgrade cursor visited last
  dbVersion, \* version of the database as the running transactions see it
  hasStore,  \* objectStoreNames.contains(STORE_NAME)
  store,     \* records as the running transaction sees them
  keyGen,    \* the store's key generator: the next key it hands out
  disk,      \* the committed database: what an abort goes back to
  disk0      \* the database as it was when the page loaded

vars == <<db, conns, calls, openq, txq, upg, cursor, dbVersion, hasStore,
          store, keyGen, disk, disk0>>

Snapshot == [dbVersion |-> dbVersion, hasStore |-> hasStore,
             store |-> store, keyGen |-> keyGen]

\* A page loads with no connection, on a fresh install (no database) or on
\* a database an earlier schema version created and filled.
Init ==
  /\ db = 0
  /\ conns = 0
  /\ calls = <<>>
  /\ openq = <<>>
  /\ txq = <<>>
  /\ upg = "idle"
  /\ cursor = 0
  /\ \/ /\ dbVersion = 0
        /\ hasStore = FALSE
        /\ store = {}
        /\ keyGen = 1
     \/ /\ dbVersion = DB_VERSION - 1
        /\ hasStore = TRUE
        /\ store \in { s \in SUBSET OldRecords : Cardinality(s) <= MaxOld }
        /\ keyGen = Cardinality(OldRecords) + 1
  /\ disk = Snapshot
  /\ disk0 = Snapshot

(***************************************************************************)
(* Calls.  A call record keeps what was asked and how it ended:            *)
(*   st   "pending", "resolved" or "rejected"                              *)
(*   err  the error it rejected with ("" if none)                          *)
(*   tx   its transaction: "none", "queued" (request not yet run), "done"  *)
(*        (request succeeded, not yet committed), "committed", "aborted"   *)
(*   key  the id addPage resolved with; rows what getAllPages resolved with*)
(*   before  the records in the store when the call's request ran          *)
(*   awaited  every earlier call had settled when this one was made        *)
(***************************************************************************)
NotInitialized == "Database not initialized"

Settled(c) == c.st # "pending"

AllSettled == \A i \in 1..Len(calls) : Settled(calls[i])

Call(op, arg, st, err, tx) ==
  [op |-> op, arg |-> arg, st |-> st, err |-> err, tx |-> tx,
   key |-> None, rows |-> {}, before |-> {}, awaited |-> AllSettled]

CanCall == Len(calls) < MaxCalls

(***************************************************************************)
(* initDB                                                                  *)
(***************************************************************************)
\* const request = indexedDB.open(DB_NAME, DB_VERSION); the function then
\* suspends until the request's success or error event.
CallInit ==
  /\ CanCall
  /\ calls' = Append(calls, Call("init", None, "pending", "", "none"))
  /\ openq' = Append(openq, Len(calls) + 1)
  /\ UNCHANGED <<db, conns, txq, upg, cursor, dbVersion, hasStore, store,
                 keyGen, disk, disk0>>

\* The oldest open request is the one the engine serves.
OpenHead == openq # <<>> /\ upg = "idle"

UpgradeNeededReadyAtOnce ==
  /\ OpenHead
  /\ dbVersion < DB_VERSION
  /\ dbVersion' = DB_VERSION
  /\ upg' = IF hasStore THEN "scan" ELSE "scanned"
  /\ cursor' = 0
  /\ conns' = conns + 1
  /\ db' = conns + 1
  /\ calls' = [calls EXCEPT ![Head(openq)].st = "resolved"]
  /\ UNCHANGED <<openq, txq, hasStore, store, keyGen, disk, disk0>>

UpgradeOnEveryOpen ==
  /\ OpenHead
  /\ dbVersion' = DB_VERSION
  /\ upg' = IF hasStore THEN "scan" ELSE "scanned"
  /\ cursor' = 0
  /\ UNCHANGED <<db, conns, calls, openq, txq, hasStore, store, keyGen, disk,
                 disk0>>

\* The stored version is older (or there is no database): the engine starts
\* the upgrade transaction and fires onupgradeneeded.  The handler creates
\* nothing; if the store exists it opens a cursor on it.
UpgradeNeeded ==
  /\ OpenHead
  /\ dbVersion < DB_VERSION
  /\ dbVersion' = DB_VERSION
  /\ upg' = IF hasStore THEN "scan" ELSE "scanned"
  /\ cursor' = 0
  /\ UNCHANGED <<db, conns, calls, openq, txq, hasStore, store, keyGen, disk,
                 disk0>>

BackfillNever(data) == data

BackfillIfBothMissing(data) ==
  IF FalsyNum(data.wordCount) /\ FalsyNum(data.readingTime)
  THEN [data EXCEPT
          !.wordCount = Some(Len(Words(OrElseText(data.content, <<>>)))),
          !.readingTime =
             Some(CeilDiv(Len(Words(OrElseText(data.content, <<>>))),
                          WordsPerMinute))]
  ELSE data

BackfillAlways(data) ==
  [data EXCEPT
     !.wordCount = Some(Len(Words(OrElseText(data.content, <<>>)))),
     !.readingTime =
        Some(CeilDiv(Len(Words(OrElseText(data.content, <<>>))), WordsPerMinute))]

\* The body of the cursor's onsuccess handler for one record.
Backfill(data) ==
  IF FalsyNum(data.wordCount) \/ FalsyNum(data.readingTime)
  THEN [data EXCEPT
          !.wordCount = Some(Len(Words(OrElseText(data.content, <<>>)))),
          !.readingTime =
             Some(CeilDiv(Len(Words(OrElseText(data.content, <<>>))),
                          WordsPerMinute))]
  ELSE data

CursorUpdateKeepsOld(recs, old, data) == recs \cup {data}

\* cursor.update(data): replaces the record stored under the cursor's key
CursorUpdate(recs, old, data) == (recs \ {old}) \cup {data}

\* The records the cursor has not visited yet
Unvisited == { r \in store : r.id > cursor }

\* One cursor event: the next record in key order is backfilled and the
\* cursor continues; past the last record the cursor is null and the scan ends.
ScanStep ==
  /\ upg = "scan"
  /\ IF Unvisited = {}
     THEN /\ upg' = "scanned"
          /\ UNCHANGED <<store, cursor>>
     ELSE LET r == CHOOSE x \in Unvisited : \A y \in Unvisited : x.id <= y.id
          IN /\ store' = CursorUpdate(store, r, Backfill(r))
             /\ cursor' = r.id
             /\ upg' = upg
  /\ UNCHANGED <<db, conns, calls, openq, txq, dbVersion, hasStore, keyGen,
                 disk, disk0>>

\* request.onsuccess: resolve(request.result); db = the new connection;
\* initDB returns.
InitResolved(i) ==
  /\ conns' = conns + 1
  /\ db' = conns + 1
  /\ calls' = [calls EXCEPT ![i].st = "resolved"]
  /\ openq' = Tail(openq)

InitRejectedButConnected(i, error) ==
  /\ calls' = [calls EXCEPT ![i].st = "rejected", ![i].err = error]
  /\ openq' = Tail(openq)
  /\ conns' = conns + 1
  /\ db' = conns + 1

\* request.onerror: reject(event.target.error); the catch block rethrows and
\* db keeps the value it had.
InitRejected(i, error) ==
  /\ calls' = [calls EXCEPT ![i].st = "rejected", ![i].err = error]
  /\ openq' = Tail(openq)
  /\ UNCHANGED <<db, conns>>

\* The upgrade transaction commits, then the open request succeeds.
UpgradeCommit ==
  /\ openq # <<>>
  /\ upg = "scanned"
  /\ upg' = "idle"
  /\ disk' = Snapshot
  /\ cursor' = 0
  /\ InitResolved(Head(openq))
  /\ UNCHANGED <<txq, dbVersion, hasStore, store, keyGen, disk0>>

\* The upgrade transaction aborts (a failed cursor.update, an exception in
\* a handler, a storage failure): the engine puts the database back as it
\* was and the open request fails.
UpgradeAbort ==
  /\ openq # <<>>
  /\ upg \in {"scan", "scanned"}
  /\ upg' = "idle"
  /\ dbVersion' = disk.dbVersion
  /\ hasStore' = disk.hasStore
  /\ store' = disk.store
  /\ keyGen' = disk.keyGen
  /\ cursor' = 0
  /\ InitRejected(Head(openq), "AbortError")
  /\ UNCHANGED <<txq, disk, disk0>>

\* The database is already at the expected version: no upgrade.
OpenSuccess ==
  /\ OpenHead
  /\ dbVersion = DB_VERSION
  /\ InitResolved(Head(openq))
  /\ UNCHANGED <<txq, upg, cursor, dbVersion, hasStore, store, keyGen, disk,
                 disk0>>

\* The engine cannot open the database at all.
OpenError ==
  /\ OpenHead
  /\ InitRejected(Head(openq), "UnknownError")
  /\ UNCHANGED <<txq, upg, cursor, dbVersion, hasStore, store, keyGen, disk,
                 disk0>>

(***************************************************************************)
(* The four store operations: the part of each function that runs when it  *)
(* is called.                                                              *)
(***************************************************************************)
\* if (!db) throw ...; then db.transaction([STORE_NAME], mode), which throws
\* NotFoundError when the connection has no such store; otherwise the request
\* is placed and the function suspends until its success or error event.
BeginUnguarded(op, arg) ==
  IF ~hasStore
  THEN /\ calls' = Append(calls, Call(op, arg, "rejected", "NotFoundError", "none"))
       /\ txq' = txq
  ELSE /\ calls' = Append(calls, Call(op, arg, "pending", "", "queued"))
       /\ txq' = Append(txq, Len(calls) + 1)

Begin(op, arg) ==
  IF db = 0
  THEN /\ calls' = Append(calls, Call(op, arg, "rejected", NotInitialized, "none"))
       /\ txq' = txq
  ELSE IF ~hasStore
  THEN /\ calls' = Append(calls, Call(op, arg, "rejected", "NotFoundError", "none"))
       /\ txq' = txq
  ELSE /\ calls' = Append(calls, Call(op, arg, "pending", "", "queued"))
       /\ txq' = Append(txq, Len(calls) + 1)

CallAddPage ==
  /\ CanCall
  /\ \E pageData \in PageInputs : Begin("add", pageData)
  /\ UNCHANGED <<db, conns, openq, upg, cursor, dbVersion, hasStore, store,
                 keyGen, disk, disk0>>

CallGetAllPages ==
  /\ CanCall
  /\ Begin("getAll", None)
  /\ UNCHANGED <<db, conns, openq, upg, cursor, dbVersion, hasStore, store,
                 keyGen, disk, disk0>>

CallDeletePage ==
  /\ CanCall
  /\ \E id \in DeleteIds : Begin("delete", id)
  /\ UNCHANGED <<db, conns, openq, upg, cursor, dbVersion, hasStore, store,
                 keyGen, disk, disk0>>

CallClearAllPages ==
  /\ CanCall
  /\ Begin("clear", None)
  /\ UNCHANGED <<db, conns, openq, upg, cursor, dbVersion, hasStore, store,
                 keyGen, disk, disk0>>

(***************************************************************************)
(* The engine runs the store transactions one at a time, oldest first      *)
(* (they all have the same scope).                                         *)
(***************************************************************************)
UnfilteredWords(text) == SplitWs(Trim(text), 1, Len(Trim(text)))

AddDataUnfiltered(pageData) ==
  [pageData EXCEPT
     !.timestamp = Some(OrElseText(pageData.timestamp, Now)),
     !.wordCount = Some(Len(UnfilteredWords(OrElseText(pageData.content, <<>>)))),
     !.readingTime =
        Some(CeilDiv(Len(UnfilteredWords(OrElseText(pageData.content, <<>>))),
                     WordsPerMinute))]

AddDataSpreadLast(pageData) ==
  [pageData EXCEPT
     !.timestamp = Some(OrElseText(pageData.timestamp, Now)),
     !.wordCount =
        IF pageData.wordCount # None THEN pageData.wordCount
        ELSE Some(Len(Words(OrElseText(pageData.content, <<>>)))),
     !.readingTime =
        IF pageData.readingTime # None THEN pageData.readingTime
        ELSE Some(CeilDiv(Len(Words(OrElseText(pageData.content, <<>>))),
                          WordsPerMinute))]

\* const data = { ...pageData, timestamp: ..., wordCount: ..., readingTime: ... }
AddData(pageData) ==
  [pageData EXCEPT
     !.timestamp = Some(OrElseText(pageData.timestamp, Now)),
     !.wordCount = Some(Len(Words(OrElseText(pageData.content, <<>>)))),
     !.readingTime =
        Some(CeilDiv(Len(Words(OrElseText(pageData.content, <<>>))),
                     WordsPerMinute))]

\* store.add(data) on a store with key path `id` and a key generator: the key
\* is data.id if the data carries one, else the generator's next number.
AddKey(data) == IF data.id = None THEN keyGen ELSE data.id[1]

\* the record as stored: the data with its key at the key path
Stored(data) == [data EXCEPT !.id = AddKey(data)]

KeyNeverInUse(data) == FALSE

\* store.add refuses a key that is in use (ConstraintError)
KeyInUse(data) == AddKey(data) \in Ids(store)

\* the generator moves past every key it has seen
NextKeyGen(data) == IF AddKey(data) >= keyGen THEN AddKey(data) + 1 ELSE keyGen

\* store.delete(id)
Deleted(recs, id) == { r \in recs : r.id # id }

TxHead(phase) == txq # <<>> /\ calls[Head(txq)].tx = phase

\* The request of the oldest transaction runs and its success event fires:
\* the promise resolves with request.result and the function returns.
RequestSuccess ==
  /\ TxHead("queued")
  /\ LET i == Head(txq)
         c == calls[i]
         ok == [c EXCEPT !.st = "resolved", !.tx = "done", !.before = store]
     IN \/ /\ c.op = "add"
           /\ ~KeyInUse(AddData(c.arg))
           /\ store' = store \cup {Stored(AddData(c.arg))}
           /\ keyGen' = NextKeyGen(AddData(c.arg))
           /\ calls' = [calls EXCEPT
                          ![i] = [ok EXCEPT !.key = Some(AddKey(AddData(c.arg)))]]
        \/ /\ c.op = "getAll"
           /\ calls' = [calls EXCEPT ![i] = [ok EXCEPT !.rows = store]]
           /\ UNCHANGED <<store, keyGen>>
        \/ /\ c.op = "delete"
           /\ store' = Deleted(store, c.arg)
           /\ calls' = [calls EXCEPT ![i] = ok]
           /\ UNCHANGED keyGen
        \/ /\ c.op = "clear"
           /\ store' = {}
           /\ calls' = [calls EXCEPT ![i] = ok]
           /\ UNCHANGED keyGen
  /\ UNCHANGED <<db, conns, openq, txq, upg, cursor, dbVersion, hasStore,
                 disk, disk0>>

\* The request fails (the key is in use, the quota is exceeded, the store is
\* unavailable): its error event fires, the promise rejects, and the
\* transaction aborts.
RequestError ==
  /\ TxHead("queued")
  /\ LET i == Head(txq)
         c == calls[i]
     IN calls' = [calls EXCEPT
                    ![i].st = "rejected", ![i].tx = "aborted",
                    ![i].err = IF c.op = "add" /\ KeyInUse(AddData(c.arg))
                               THEN "ConstraintError" ELSE "AbortError"]
  /\ txq' = Tail(txq)
  /\ UNCHANGED <<db, conns, openq, upg, cursor, dbVersion, hasStore, store,
                 keyGen, disk, disk0>>

\* The transaction commits: its changes are on disk.
TxComplete ==
  /\ TxHead("done")
  /\ calls' = [calls EXCEPT ![Head(txq)].tx = "committed"]
  /\ txq' = Tail(txq)
  /\ disk' = Snapshot
  /\ UNCHANGED <<db, conns, openq, upg, cursor, dbVersion, hasStore, store,
                 keyGen, disk0>>

\* The transaction aborts after its request succeeded (the commit fails):
\* the engine undoes its changes.  No function listens for this event, so
\* the call stays as it settled.
TxAbort ==
  /\ TxHead("done")
  /\ calls' = [calls EXCEPT ![Head(txq)].tx = "aborted"]
  /\ txq' = Tail(txq)
  /\ store' = disk.store
  /\ keyGen' = disk.keyGen
  /\ UNCHANGED <<db, conns, openq, upg, cursor, dbVersion, hasStore, disk,
                 disk0>>

Next ==
  \/ CallInit
  \/ UpgradeNeeded
  \/ ScanStep
  \/ UpgradeCommit
  \/ UpgradeAbort
  \/ OpenSuccess
  \/ OpenError
  \/ CallAddPage
  \/ CallGetAllPages
  \/ CallDeletePage
  \/ CallClearAllPages
  \/ RequestSuccess
  \/ RequestError
  \/ TxComplete
  \/ TxAbort

Spec == Init /\ [][Next]_vars

(***************************************************************************)
(* A version bump.  A later build raises DB_VERSION by one and keeps the   *)
(* upgrade handler; when its page loads, the stored version is one behind  *)
(* the expected one again and there is no connection yet.  ScanSpec is the *)
(* life of the database over such builds: open, upgrade (the cursor scan), *)
(* commit or abort, and the next version bump.                             *)
(***************************************************************************)
VersionBump ==
  /\ CanCall
  /\ openq = <<>>
  /\ txq = <<>>
  /\ upg = "idle"
  /\ dbVersion = DB_VERSION
  /\ dbVersion' = DB_VERSION - 1
  /\ disk' = [disk EXCEPT !.dbVersion = DB_VERSION - 1]
  /\ db' = 0
  /\ UNCHANGED <<conns, calls, openq, txq, upg, cursor, hasStore, store,
                 keyGen, disk0>>

ScanInit == Init /\ dbVersion = DB_VERSION - 1

ScanNext ==
  \/ CallInit
  \/ UpgradeNeeded
  \/ ScanStep
  \/ UpgradeCommit
  \/ UpgradeAbort
  \/ OpenError
  \/ VersionBump

ScanSpec == ScanInit /\ [][ScanNext]_vars

(***************************************************************************)
(* The derivation on its own.  DeriveSpec draws one content value (every   *)
(* short text over a letter and two kinds of whitespace, texts of a few    *)
(* hundred words, or no content at all), stored by an earlier version      *)
(* without metadata; init backfills it, and addPage is then called with    *)
(* the same content, so the store holds what both derivations make of it.  *)
(***************************************************************************)
\* longest short text
MaxLen == 3

Chars == {"a", " ", "\n"}

ShortTexts == UNION { [1..k -> Chars] : k \in 0..MaxLen }

\* n words, each followed by a space
WordsText(n) == [i \in 1..(2 * n) |-> IF i % 2 = 1 THEN "a" ELSE " "]

LongTexts == { WordsText(n) : n \in {199, 200, 201, 400, 401, 450} }

ContentInputs == {None} \cup { Some(t) : t \in ShortTexts \cup LongTexts }

DeriveInit ==
  /\ db = 0
  /\ conns = 0
  /\ calls = <<>>
  /\ openq = <<>>
  /\ txq = <<>>
  /\ upg = "idle"
  /\ cursor = 0
  /\ dbVersion = DB_VERSION - 1
  /\ hasStore = TRUE
  /\ \E content \in ContentInputs :
       store = { Rec(1, "A", content, Some(T0), None, None) }
  /\ keyGen = 2
  /\ disk = Snapshot
  /\ disk0 = Snapshot

\* addPage({title, url, content}) with the content of the stored record
CallAddSameContent ==
  /\ CanCall
  /\ \E o \in disk0.store :
       Begin("add", PageData(None, "N", o.content, None, None))
  /\ UNCHANGED <<db, conns, openq, upg, cursor, dbVersion, hasStore, store,
                 keyGen, disk, disk0>>

DeriveNext ==
  \/ CallInit
  \/ UpgradeNeeded
  \/ ScanStep
  \/ UpgradeCommit
  \/ OpenSuccess
  \/ CallAddSameContent
  \/ CallGetAllPages
  \/ RequestSuccess
  \/ TxComplete

DeriveSpec == DeriveInit /\ [][DeriveNext]_vars

(***************************************************************************)
(* The sidebar.  The script registers its message listener when it loads   *)
(* and starts initialize() on DOMContentLoaded; every handler awaits its   *)
(* store operation and then renders the list (getAllPages).  SidebarSpec   *)
(* is the sidebar on an engine that fails nothing: no open error, no       *)
(* request error, no abort.  The continuation of an await runs before any  *)
(* other event is handled, so while a render is owed nothing else happens. *)
(***************************************************************************)
\* calls whose handler goes on to renderClippedPages() once they resolve
Rendering(c) == c.op \in {"init", "add", "delete", "clear"} /\ c.st = "resolved"

\* a handler has resumed from its await and has not yet called
\* renderClippedPages()
RenderOwed ==
  /\ CanCall
  /\ Cardinality({ i \in 1..Len(calls) : Rendering(calls[i]) })
       > Cardinality({ i \in 1..Len(calls) : calls[i].op = "getAll" })

\* message.data of a 'newClip' message: what the background script clipped
ClipInputs == { p \in PageInputs : p.id = None }

\* the delete buttons of the list as rendered last
Buttons ==
  LET shown == { i \in 1..Len(calls) :
                   calls[i].op = "getAll" /\ calls[i].st = "resolved" }
  IN IF shown = {} THEN {}
     ELSE Ids(calls[CHOOSE i \in shown : \A j \in shown : j <= i].rows)

\* initialize() has not been called yet
Loading == \A i \in 1..Len(calls) : calls[i].op # "init"

\* the listeners may make a call; while the page is loading one call is
\* left for initialize()
Room == IF Loading THEN Len(calls) + 1 < MaxCalls ELSE CanCall

\* document.addEventListener('DOMContentLoaded', initialize)
DOMContentLoaded ==
  /\ ~RenderOwed
  /\ Loading
  /\ CallInit

\* the onMessage listener receives {action: 'newClip', data}
NewClip ==
  /\ ~RenderOwed
  /\ Room
  /\ \E pageData \in ClipInputs : Begin("add", pageData)
  /\ UNCHANGED <<db, conns, openq, upg, cursor, dbVersion, hasStore, store,
                 keyGen, disk, disk0>>

\* await renderClippedPages() in initialize and in the three handlers
Render ==
  /\ RenderOwed
  /\ CallGetAllPages

\* a click on a record's delete button
DeleteClick ==
  /\ ~RenderOwed
  /\ Room
  /\ \E id \in Buttons : Begin("delete", id)
  /\ UNCHANGED <<db, conns, openq, upg, cursor, dbVersion, hasStore, store,
                 keyGen, disk, disk0>>

\* a click on "clear all", confirmed
ClearAllClick ==
  /\ ~RenderOwed
  /\ Room
  /\ CallClearAllPages

\* the engine's events
SidebarUpgradeNeeded == ~RenderOwed /\ UpgradeNeeded

SidebarScanStep == ~RenderOwed /\ ScanStep

SidebarUpgradeCommit == ~RenderOwed /\ UpgradeCommit

SidebarOpenSuccess == ~RenderOwed /\ OpenSuccess

SidebarRequestSuccess == ~RenderOwed /\ RequestSuccess

SidebarTxComplete == ~RenderOwed /\ TxComplete

SidebarEngine ==
  \/ SidebarUpgradeNeeded
  \/ SidebarScanStep
  \/ SidebarUpgradeCommit
  \/ SidebarOpenSuccess
  \/ SidebarRequestSuccess
  \/ SidebarTxComplete

SidebarNext ==
  \/ DOMContentLoaded
  \/ NewClip
  \/ Render
  \/ DeleteClick
  \/ ClearAllClick
  \/ SidebarUpgradeNeeded
  \/ SidebarScanStep
  \/ SidebarUpgradeCommit
  \/ SidebarOpenSuccess
  \/ SidebarRequestSuccess
  \/ SidebarTxComplete

\* what the sidebar's store may hold when the page loads: nothing, or one
\* page clipped before the metadata fields existed
SidebarStores == { {}, { r \in OldRecords : r.id = 1 } }

\* The sidebar opens on a fresh install, on a database of the previous
\* version, or on a database an earlier page load has upgraded already.
SidebarInit ==
  /\ db = 0
  /\ conns = 0
  /\ calls = <<>>
  /\ openq = <<>>
  /\ txq = <<>>
  /\ upg = "idle"
  /\ cursor = 0
  /\ \/ /\ dbVersion = 0
        /\ hasStore = FALSE
        /\ store = {}
        /\ keyGen = 1
     \/ /\ dbVersion = DB_VERSION - 1
        /\ hasStore = TRUE
        /\ store \in SidebarStores
        /\ keyGen = Cardinality(OldRecords) + 1
     \/ /\ dbVersion = DB_VERSION
        /\ hasStore = TRUE
        /\ store \in { { Backfill(r) : r \in s } : s \in SidebarStores }
        /\ keyGen = Cardinality(OldRecords) + 1
  /\ disk = Snapshot
  /\ disk0 = Snapshot

\* The page does load, handlers do resume, and the engine serves what it is
\* asked.
SidebarSpec ==
  /\ SidebarInit
  /\ [][SidebarNext]_vars
  /\ WF_vars(DOMContentLoaded)
  /\ WF_vars(Render)
  /\ WF_vars(SidebarEngine)

(***************************************************************************)
(* Properties.                                                             *)
(***************************************************************************)
CallIds == 1..Len(calls)

IsWrite(c) == c.op \in {"add", "delete", "clear"}

NoInitSucceeded ==
  \A i \in CallIds : ~(calls[i].op = "init" /\ calls[i].st = "resolved")

SomeInitSucceeded ==
  \E i \in CallIds : calls[i].op = "init" /\ calls[i].st = "resolved"

HasMetadata(r) == r.wordCount # None /\ r.readingTime # None

\* C1: addPage, getAllPages, deletePage or clearAllPages called while no
\* init() has yet resolved (never called, in flight, or failed) rejects with
\* the not-initialized error, starts no transaction and leaves the stored
\* records as they are.
C1_NotInitialized ==
  [][ (/\ NoInitSucceeded
       /\ Len(calls') = Len(calls) + 1
       /\ calls'[Len(calls')].op # "init")
      => (/\ calls'[Len(calls')].st = "rejected"
          /\ calls'[Len(calls')].err = NotInitialized
          /\ calls'[Len(calls')].tx = "none"
          /\ txq' = txq
          /\ store' = store
          /\ disk' = disk) ]_vars

\* C1 witness: a store operation was refused after one init failed and
\* while another is still in flight, on a database that holds records.
C1_Witness ==
  \E i, j, k \in CallIds :
    /\ i < j /\ j < k
    /\ calls[i].op = "init" /\ calls[i].st = "rejected"
    /\ calls[j].op = "init" /\ calls[j].st = "pending"
    /\ calls[k].op = "clear" /\ calls[k].err = NotInitialized
    /\ store # {}

\* C2: init() on a fresh install creates the database at the current schema
\* version together with the record store, and the operations called on the
\* connection it resolves with succeed.
C2_FreshInstall ==
  (disk0.dbVersion = 0 /\ SomeInitSucceeded)
  => (/\ disk.dbVersion = DB_VERSION
      /\ disk.hasStore
      /\ \A i \in CallIds : calls[i].err # "NotFoundError")

\* C3: after addPage(r) succeeds, a following getAllPages() includes exactly
\* one record whose title, url and content match r's; that record has the
\* id addPage returned, which no other record has, and non-null wordCount and
\* readingTime.
C3_AddThenGetAll ==
  \A i \in CallIds :
    (/\ i < Len(calls)
     /\ calls[i].op = "add" /\ calls[i].st = "resolved"
     /\ calls[i + 1].op = "getAll" /\ calls[i + 1].st = "resolved"
     /\ calls[i + 1].awaited)
    => LET r == calls[i].arg
           rows == calls[i + 1].rows
           match == { x \in rows : /\ x.title = r.title
                                   /\ x.url = r.url
                                   /\ x.content = r.content }
       IN /\ Cardinality(match) = 1
          /\ \A x \in match :
               /\ x.id = calls[i].key[1]
               /\ \A y \in rows \ {x} : y.id # x.id
               /\ HasMetadata(x)

\* C4: once init() has succeeded, every record in the store has non-null
\* wordCount and readingTime, whatever the database held before and
\* whatever was called since.
C4_MetadataPresent ==
  SomeInitSucceeded
  => /\ \A r \in store : HasMetadata(r)
     /\ \A r \in disk.store : HasMetadata(r)

\* C4 witness: a record that had no metadata when the page loaded and a
\* record addPage wrote are both in the committed store.
C4_Witness ==
  /\ SomeInitSucceeded
  /\ \E r \in disk0.store : ~HasMetadata(r) /\ r.id \in Ids(disk.store)
  /\ \E i \in CallIds :
       /\ calls[i].op = "add" /\ calls[i].tx = "committed"
       /\ calls[i].key[1] \in Ids(disk.store)

\* C5: a write operation settles only when its transaction has completed or
\* aborted; if the transaction aborts the operation rejects, so it never
\* resolves for a write that was not committed.
C5_SettlesWithTransaction ==
  \A i \in CallIds :
    (IsWrite(calls[i]) /\ calls[i].tx # "none")
    => /\ Settled(calls[i]) => calls[i].tx \in {"committed", "aborted"}
       /\ calls[i].tx = "aborted" => calls[i].st = "rejected"

\* C6: if the upgrade fails, init() rejects, the database stays at the
\* version it had with every record as it was before init was called, and
\* the connection is not set.
C6_FailedUpgrade ==
  (/\ upg = "idle"
   /\ NoInitSucceeded
   /\ \E i \in CallIds : calls[i].op = "init" /\ calls[i].err = "AbortError")
  => (/\ db = 0
      /\ dbVersion = disk0.dbVersion
      /\ hasStore = disk0.hasStore
      /\ store = disk0.store
      /\ keyGen = disk0.keyGen
      /\ disk = disk0)

\* C6 witness: the upgrade of a database holding a record without metadata
\* was aborted, and a store operation called afterwards was refused.
C6_Witness ==
  /\ upg = "idle"
  /\ NoInitSucceeded
  /\ \E r \in store : ~HasMetadata(r)
  /\ \E i, j \in CallIds :
       /\ i < j
       /\ calls[i].op = "init" /\ calls[i].err = "AbortError"
       /\ calls[j].op = "getAll" /\ calls[j].err = NotInitialized

\* An init() call resolves in this step, after an earlier one has.
SecondInitResolves ==
  /\ SomeInitSucceeded
  /\ \E i \in CallIds :
       calls[i].op = "init" /\ calls[i].st = "pending" /\ calls'[i].st = "resolved"

\* C7 as claimed: a second init() after a successful one yields the same
\* connection as the first, runs no backfill scan and leaves the stored
\* records unchanged.
C7_SameConnection ==
  [][ SecondInitResolves
      => (db' = db /\ upg = "idle" /\ store' = store /\ disk' = disk) ]_vars

\* C7 as amended: a second init() after a successful one resolves with a new
\* connection handle to the same database, which replaces the first in the
\* module's state; no backfill scan runs once an init has succeeded, and the
\* second init leaves version, store and stored records unchanged.
C7_ReopensSameDatabase ==
  [][ /\ SomeInitSucceeded => (upg = "idle" /\ upg' = "idle")
      /\ SecondInitResolves
         => (/\ db' # 0 /\ db' # db
             /\ dbVersion' = dbVersion /\ hasStore' = hasStore
             /\ store' = store /\ keyGen' = keyGen /\ disk' = disk
             /\ txq' = txq) ]_vars

\* C7 witness: two init() calls have resolved on a database that was
\* upgraded by the first and still holds a backfilled record.
C7_Witness ==
  /\ \E i, j \in CallIds :
       /\ i < j
       /\ calls[i].op = "init" /\ calls[i].st = "resolved"
       /\ calls[j].op = "init" /\ calls[j].st = "resolved"
  /\ db = 2
  /\ \E r \in disk0.store : ~HasMetadata(r) /\ r.id \in Ids(store)

\* The number of whitespace-delimited non-empty tokens of a text: the
\* positions where a token starts.
TokenCount(text) ==
  Cardinality({ i \in 1..Len(text) :
                  /\ ~IsSpace(text[i])
                  /\ (i = 1 \/ IsSpace(text[i - 1])) })

\* ceil(n / 200): the least m with 200 * m >= n
Minutes(n) == CHOOSE m \in 0..n : 200 * m >= n /\ (m = 0 \/ 200 * (m - 1) < n)

TextOf(content) == IF content = None THEN <<>> ELSE content[1]

NeedsBackfill(o) == FalsyNum(o.wordCount) \/ FalsyNum(o.readingTime)

\* r is the record o, whatever its metadata
SameClip(r, o) ==
  /\ r.id = o.id /\ r.title = o.title /\ r.url = o.url
  /\ r.content = o.content /\ r.timestamp = o.timestamp

\* C8: after the upgrade from the pre-metadata version, every pre-existing
\* record whose wordCount or readingTime was missing or falsy has wordCount
\* equal to the number of whitespace-delimited non-empty tokens of its
\* content (no content counting as the empty string) and readingTime equal
\* to ceil(wordCount / 200).
C8_BackfillValues ==
  SomeInitSucceeded
  => \A o \in disk0.store : \A r \in store \cup disk.store :
       (NeedsBackfill(o) /\ SameClip(r, o))
       => /\ r.wordCount = Some(TokenCount(TextOf(o.content)))
          /\ r.readingTime = Some(Minutes(TokenCount(TextOf(o.content))))

\* C8 witness: the upgrade has committed on a store that held a record
\* without metadata and with content, and a record with one field missing
\* and no content; both are still stored.
C8_Witness ==
  /\ SomeInitSucceeded
  /\ \E o \in disk0.store : \E r \in disk.store :
       /\ o.wordCount = None /\ o.content # None /\ SameClip(r, o)
  /\ \E o \in disk0.store : \E r \in disk.store :
       /\ o.readingTime = None /\ o.content = None /\ SameClip(r, o)

\* An upgrade is running on a database an earlier upgrade has already scanned.
SecondScan == SomeInitSucceeded /\ upg \in {"scan", "scanned"}

\* both fields present and non-zero
TruthyMetadata(o) == ~FalsyNum(o.wordCount) /\ ~FalsyNum(o.readingTime)

\* C9 as claimed: a second backfill scan over a data set already scanned
\* changes no field of any record, and a record that already carries both
\* fields is left untouched by any scan.
C9_ScanLeavesCarriers ==
  /\ SecondScan => store = disk.store
  /\ upg \in {"scan", "scanned"}
     => \A o \in disk.store : HasMetadata(o) => o \in store

\* C9 as amended: a second backfill scan over a data set already scanned
\* changes no field of any record (also for records with empty content whose
\* derived fields are 0), and a record that carries both fields with non-zero
\* values is left untouched by any scan; a record whose wordCount or
\* readingTime is 0 is recomputed from its content.
C9_ScanIdempotent ==
  /\ SecondScan => store = disk.store
  /\ upg \in {"scan", "scanned"}
     => \A o \in disk.store :
          /\ TruthyMetadata(o) => o \in store
          /\ (cursor >= o.id /\ ~TruthyMetadata(o))
             => \E r \in store :
                  /\ SameClip(r, o)
                  /\ r.wordCount = Some(TokenCount(TextOf(o.content)))
                  /\ r.readingTime = Some(Minutes(TokenCount(TextOf(o.content))))

\* C9 witness: a second scan has run to its end over a store holding a
\* record the first scan backfilled, and a record with empty content and
\* zero metadata.
C9_Witness ==
  /\ SecondScan
  /\ upg = "scanned"
  /\ \E o \in disk0.store : ~HasMetadata(o) /\ o.id \in Ids(store)
  /\ \E r \in store : r.wordCount = Some(0) /\ r.content = Some(<<>>)

\* C10: after deletePage(id) succeeds, a following getAllPages() returns
\* exactly the records the store held before, minus the record with key id:
\* none with that id, every other one with all its fields, and the same
\* records when none had that id.
C10_DeleteThenGetAll ==
  \A i \in CallIds :
    (/\ i < Len(calls)
     /\ calls[i].op = "delete" /\ calls[i].st = "resolved"
     /\ calls[i + 1].op = "getAll" /\ calls[i + 1].st = "resolved"
     /\ calls[i + 1].awaited)
    => calls[i + 1].rows = { r \in calls[i].before : r.id # calls[i].arg }

\* C11: after clearAllPages() succeeds, a following getAllPages() returns
\* an empty collection, whatever records the store held before.
C11_ClearThenGetAll ==
  \A i \in CallIds :
    (/\ i < Len(calls)
     /\ calls[i].op = "clear" /\ calls[i].st = "resolved"
     /\ calls[i + 1].op = "getAll" /\ calls[i + 1].st = "resolved"
     /\ calls[i + 1].awaited)
    => calls[i + 1].rows = {}

\* C12: ids are unique and monotonic: each successful addPage returns an id
\* strictly greater than every id returned earlier, whatever was deleted or
\* cleared in between, and no two stored records share an id.
C12_IdsMonotonic ==
  /\ \A i, j \in CallIds :
       (/\ i < j
        /\ calls[i].op = "add" /\ calls[i].st = "resolved"
        /\ calls[j].op = "add" /\ calls[j].st = "resolved")
       => calls[j].key[1] > calls[i].key[1]
  /\ \A r, q \in store : r.id = q.id => r = q

\* a text of whitespace only (the empty text included)
IsBlank(text) == \A i \in 1..Len(text) : IsSpace(text[i])

\* C13: for every content c, the derived metadata satisfies readingTime =
\* ceil(wordCount / 200), where wordCount is the number of non-empty
\* whitespace-delimited tokens of c; empty or whitespace-only content gives
\* wordCount 0 and readingTime 0.
C13_Derive ==
  \A r \in store :
    HasMetadata(r)
    => /\ r.wordCount = Some(TokenCount(TextOf(r.content)))
       /\ r.readingTime = Some(Minutes(r.wordCount[1]))
       /\ IsBlank(TextOf(r.content))
          => (r.wordCount = Some(0) /\ r.readingTime = Some(0))

\* C13 witness: a content of 450 words was derived to 450 words and 3
\* minutes, by the backfill and by addPage.
C13_Witness ==
  /\ \E r \in disk.store :
       r.id = 1 /\ r.wordCount = Some(450) /\ r.readingTime = Some(3)
  /\ \E r \in disk.store :
       r.id # 1 /\ r.wordCount = Some(450) /\ r.readingTime = Some(3)

\* C14: the backfill scan changes only wordCount and readingTime: every
\* record keeps its id, title, url, content and timestamp, and the scan
\* neither adds nor removes a record, so the ids in the store are the same
\* before and after the upgrade.
C14_ScanFrame ==
  upg \in {"scan", "scanned"}
  => /\ Ids(store) = Ids(disk.store)
     /\ Cardinality(store) = Cardinality(disk.store)
     /\ \A o \in disk.store : \E r \in store : SameClip(r, o)

\* C14 witness: the scan has rewritten the metadata of two records.
C14_Witness ==
  /\ upg = "scanned"
  /\ Cardinality({ o \in disk.store : o \notin store }) = 2

\* C15: records are immutable outside the migration backfill: no step taken
\* for addPage, getAllPages, deletePage or clearAllPages changes a field of a
\* record that is still in the store afterwards, and addPage overwrites no
\* record, also when the page data carries an id that is in use.
C15_RecordsImmutable ==
  [][ (upg = "idle" /\ upg' = "idle")
      => /\ \A r \in store : r.id \in Ids(store') => r \in store'
         /\ \A r, q \in store' : r.id = q.id => r = q ]_vars

\* C15 witness: addPage with page data carrying the id of a stored record
\* was refused, and that record is still stored.
C15_Witness ==
  \E i \in CallIds :
    /\ calls[i].op = "add" /\ calls[i].err = "ConstraintError"
    /\ \E r \in store : r.id = calls[i].arg.id[1] /\ r.title # calls[i].arg.title

\* C16: the connection is ready only after the upgrade has finished: once
\* init() has resolved no upgrade is running, the database is committed at
\* the current version with every record backfilled, and no getAllPages()
\* resolves with a record that lacks wordCount or readingTime.
C16_ReadyAfterUpgrade ==
  /\ (db # 0 \/ SomeInitSucceeded)
     => /\ upg = "idle"
        /\ disk.dbVersion = DB_VERSION
        /\ \A r \in disk.store : HasMetadata(r)
  /\ \A i \in CallIds :
       calls[i].op = "getAll" => \A r \in calls[i].rows : HasMetadata(r)

\* C16 witness: getAllPages() resolved with a record that had no metadata
\* when the page loaded.
C16_Witness ==
  \E i \in CallIds :
    /\ calls[i].op = "getAll" /\ calls[i].st = "resolved"
    /\ \E o \in disk0.store : \E r \in calls[i].rows :
         ~HasMetadata(o) /\ SameClip(r, o)

\* C17: two addPage calls issued back to back, the second without awaiting
\* the first, are serialized by the engine: when both have resolved and
\* their transactions have ended, they returned two distinct ids and both
\* records are in the store.
C17_BackToBackAdds ==
  \A i \in CallIds :
    (/\ i + 1 = Len(calls)
     /\ calls[i].op = "add" /\ calls[i].st = "resolved"
     /\ calls[i + 1].op = "add" /\ calls[i + 1].st = "resolved"
     /\ ~calls[i + 1].awaited
     /\ txq = <<>>)
    => /\ calls[i].key # calls[i + 1].key
       /\ \E r \in store : r.id = calls[i].key[1] /\ r.title = calls[i].arg.title
       /\ \E r \in store :
            r.id = calls[i + 1].key[1] /\ r.title = calls[i + 1].arg.title

\* C18: write-time and migration-time derivation are the same function: a
\* record addPage stored and a record the backfill scan filled in, with the
\* same content (absent content included), carry the same wordCount and the
\* same readingTime.
C18_SameDerivation ==
  \A o \in disk0.store : \A r, q \in store :
    (/\ SameClip(r, o) /\ HasMetadata(r)
     /\ q.id # o.id /\ q.content = o.content)
    => /\ q.wordCount = r.wordCount
       /\ q.readingTime = r.readingTime

\* C18 witness: a record without content was backfilled, and addPage stored
\* a record without content.
C18_Witness ==
  /\ \E r \in disk.store : r.id = 1 /\ r.content = None /\ HasMetadata(r)
  /\ \E q \in disk.store : q.id # 1 /\ q.content = None /\ HasMetadata(q)

\* the record was written by addPage with metadata derived from its content
DerivedOnWrite(r) ==
  /\ r.wordCount = Some(TokenCount(TextOf(r.content)))
  /\ r.readingTime = Some(Minutes(TokenCount(TextOf(r.content))))

\* C19: addPage always stores metadata derived from content: the record an
\* addPage request has just stored has the content and the non-empty
\* timestamp of the page data, wordCount equal to the token count of that
\* content and readingTime equal to ceil(wordCount / 200), also when the page
\* data carried its own wordCount and readingTime; and so has every stored
\* record whose id no record had when the page loaded.
C19_DerivedOnWrite ==
  /\ \A i \in CallIds :
       (calls[i].op = "add" /\ calls[i].tx = "done")
       => \E r \in store :
            /\ r.id = calls[i].key[1]
            /\ r.content = calls[i].arg.content
            /\ DerivedOnWrite(r)
            /\ ~FalsyText(calls[i].arg.timestamp)
               => r.timestamp = calls[i].arg.timestamp
  /\ \A r \in store \cup disk.store :
       r.id \notin Ids(disk0.store) => DerivedOnWrite(r)

\* C19 witness: addPage was given page data with a timestamp and a wordCount
\* and readingTime of 7 and no content; the record is committed with that
\* timestamp and with wordCount 0 and readingTime 0.
C19_Witness ==
  \E i \in CallIds :
    /\ calls[i].op = "add" /\ calls[i].tx = "committed"
    /\ calls[i].arg.wordCount = Some(7) /\ calls[i].arg.readingTime = Some(7)
    /\ \E r \in disk.store :
         /\ r.id = calls[i].key[1]
         /\ r.timestamp = Some(T1)
         /\ r.wordCount = Some(0) /\ r.readingTime = Some(0)

\* C20: no clip is lost by the sidebar: every 'newClip' message the listener
\* receives, also before the initialization started on DOMContentLoaded has
\* completed, eventually has its record committed to the store, on an
\* engine that fails no transaction.
C20_NoClipLost ==
  \A k \in 1..MaxCalls :
    (Len(calls) >= k /\ calls[k].op = "add")
    ~> (/\ Len(calls) >= k
        /\ calls[k].op = "add"
        /\ calls[k].tx = "committed"
        /\ \E r \in disk.store : r.id = calls[k].key[1])

====
